---- MODULE Spec2Model ----
(***************************************************************************)
(* A model of toleo (src/toleo/__init__.py): the config loader, the        *)
(* upstream and repo resolvers, the version comparator and the three       *)
(* report loops of one run of the command line.                            *)
(*                                                                         *)
(* Python strings are sequences of one-character strings, so that the      *)
(* character-level operations of the code (str.rstrip, the substring test  *)
(* of the limit filter, pathlib's suffix handling, the version parser) are *)
(* computed and not assumed.  None is the one-element sequence <<"None">>, *)
(* which is no character sequence.                                         *)
(***************************************************************************)
EXTENDS Integers, Sequences, FiniteSets, TLC

\* ------------------------------------------------------------------------
\* Strings
\* ------------------------------------------------------------------------

None == <<"None">>

Digits == {"0", "1", "2", "3", "4", "5", "6", "7", "8", "9"}

DigitVal(c) ==
    CASE c = "0" -> 0 [] c = "1" -> 1 [] c = "2" -> 2 [] c = "3" -> 3
      [] c = "4" -> 4 [] c = "5" -> 5 [] c = "6" -> 6 [] c = "7" -> 7
      [] c = "8" -> 8 [] c = "9" -> 9

\* s[i..] (1-based), the empty string when i is past the end
From(s, i) == IF i > Len(s) THEN <<>> ELSE SubSeq(s, i, Len(s))

\* s.startswith(p)
StartsWith(s, p) == Len(p) <= Len(s) /\ SubSeq(s, 1, Len(p)) = p

\* s.endswith(p)
EndsWith(s, p) ==
    Len(p) <= Len(s) /\ SubSeq(s, Len(s) - Len(p) + 1, Len(s)) = p

\* Python's  sub in s
Contains(s, sub) ==
    \E i \in 1..(Len(s) + 1) : StartsWith(From(s, i), sub)

\* str.rstrip(chars): drop every trailing character that is in chars
RECURSIVE rstrip(_, _)
rstrip(s, chars) ==
    IF s # <<>> /\ s[Len(s)] \in chars
    THEN rstrip(SubSeq(s, 1, Len(s) - 1), chars)
    ELSE s

\* the length of the longest prefix of s made of digits
RECURSIVE DigitRun(_)
DigitRun(s) ==
    IF s # <<>> /\ Head(s) \in Digits THEN 1 + DigitRun(Tail(s)) ELSE 0

\* int(s) of a string of digits
RECURSIVE ToInt(_)
ToInt(s) ==
    IF s = <<>> THEN 0
    ELSE 10 * ToInt(SubSeq(s, 1, Len(s) - 1)) + DigitVal(s[Len(s)])

\* lexicographic order of two sequences of integers, as Python orders tuples
\* and strings: -1, 0 or 1
RECURSIVE LexCmp(_, _)
LexCmp(a, b) ==
    IF a = <<>> /\ b = <<>> THEN 0
    ELSE IF a = <<>> THEN -1
    ELSE IF b = <<>> THEN 1
    ELSE IF Head(a) < Head(b) THEN -1
    ELSE IF Head(a) > Head(b) THEN 1
    ELSE LexCmp(Tail(a), Tail(b))

\* ------------------------------------------------------------------------
\* pkg_resources.parse_version, as ver_compare uses it (lines 62-63).
\* setup.py pins no version of setuptools; the model is the parser of
\* setuptools 8 to 65: a PEP 440 version when the string is one, a
\* LegacyVersion otherwise, and every LegacyVersion below every PEP 440
\* version.  (Before setuptools 8 every string is ordered as a LegacyVersion
\* is here; from setuptools 66 on a string that is no PEP 440 version, the
\* empty baseline of upstream_version included, raises.)  The strings are over the digits and . - r c, so of PEP 440's
\* grammar a string can hold a release, a pre-release (c, rc) and a
\* post-release (-N, r).
\* ------------------------------------------------------------------------

Sep == {".", "-", "_"}

SkipSep(s) == IF s # <<>> /\ Head(s) \in Sep THEN Tail(s) ELSE s

\* an optional separator and an optional number: [-_.]?[0-9]+)?
TagNumber(u) ==
    LET w == SkipSep(u)
        n == DigitRun(w)
    IN  [n |-> ToInt(SubSeq(w, 1, n)), rest |-> From(w, n + 1)]

\* release segment N(.N)*: the numbers read and what follows them
RECURSIVE ParseRelease(_)
ParseRelease(s) ==
    LET n    == DigitRun(s)
        rest == From(s, n + 1)
    IN  IF n = 0 THEN [rel |-> <<>>, rest |-> s]
        ELSE IF rest # <<>> /\ Head(rest) = "." /\ DigitRun(Tail(rest)) > 0
        THEN LET more == ParseRelease(Tail(rest))
             IN  [rel |-> <<ToInt(SubSeq(s, 1, n))>> \o more.rel,
                  rest |-> more.rest]
        ELSE [rel |-> <<ToInt(SubSeq(s, 1, n))>>, rest |-> rest]

\* pre-release segment [-_.]?(c|rc)[-_.]?N?
ParsePre(s) ==
    LET t   == SkipSep(s)
        len == IF StartsWith(t, <<"r", "c">>) THEN 2
               ELSE IF StartsWith(t, <<"c">>) THEN 1 ELSE 0
        num == TagNumber(From(t, len + 1))
    IN  IF len = 0 THEN [has |-> FALSE, n |-> 0, rest |-> s]
        ELSE [has |-> TRUE, n |-> num.n, rest |-> num.rest]

\* post-release segment -N | [-_.]?r[-_.]?N?
ParsePost(s) ==
    LET t   == SkipSep(s)
        num == TagNumber(From(t, 2))
    IN  IF s # <<>> /\ Head(s) = "-" /\ DigitRun(Tail(s)) > 0
        THEN [has |-> TRUE, n |-> ToInt(SubSeq(Tail(s), 1, DigitRun(Tail(s)))),
              rest |-> From(Tail(s), DigitRun(Tail(s)) + 1)]
        ELSE IF StartsWith(t, <<"r">>)
        THEN [has |-> TRUE, n |-> num.n, rest |-> num.rest]
        ELSE [has |-> FALSE, n |-> 0, rest |-> s]

\* Version._key drops the trailing zeros of the release
RECURSIVE StripZeros(_)
StripZeros(rel) ==
    IF rel # <<>> /\ rel[Len(rel)] = 0
    THEN StripZeros(SubSeq(rel, 1, Len(rel) - 1))
    ELSE rel

\* the parts of a LegacyVersion, each a sequence of ranks that orders as the
\* part's string does: a number n is <<10 + n>>, "*c.." and "*r.." are
\* <<0, letters>> with c = 1 and r = 3, "*final" is <<0, 2>> and "*final-"
\* is <<0, 2, 1>>
StarFinal == <<0, 2>>
StarFinalDash == <<0, 2, 1>>
LegacyZero == <<10>>

RECURSIVE LetterRun(_)
LetterRun(s) ==
    IF s # <<>> /\ Head(s) \in {"r", "c"} THEN 1 + LetterRun(Tail(s)) ELSE 0

LetterRanks(w) == [i \in 1..Len(w) |-> IF w[i] = "c" THEN 1 ELSE 3]

RECURSIVE LegacyParts(_)
LegacyParts(s) ==
    IF s = <<>> THEN <<StarFinal>>
    ELSE IF Head(s) \in Digits
    THEN LET n == DigitRun(s)
         IN  <<<<10 + ToInt(SubSeq(s, 1, n))>>>> \o LegacyParts(From(s, n + 1))
    ELSE IF Head(s) \in {"r", "c"}
    THEN LET n == LetterRun(s)
             w == SubSeq(s, 1, n)
             \* the replacement map turns rc into c
             part == IF w = <<"r", "c">> THEN <<0, 1>> ELSE <<0>> \o LetterRanks(w)
         IN  <<part>> \o LegacyParts(From(s, n + 1))
    ELSE IF Head(s) = "-" THEN <<StarFinalDash>> \o LegacyParts(Tail(s))
    ELSE LegacyParts(Tail(s))

RECURSIVE PopWhile(_, _)
PopWhile(parts, x) ==
    IF parts # <<>> /\ parts[Len(parts)] = x
    THEN PopWhile(SubSeq(parts, 1, Len(parts) - 1), x)
    ELSE parts

\* _legacy_cmpkey's loop over the parts
RECURSIVE LegacyKey(_, _)
LegacyKey(parts, acc) ==
    IF parts = <<>> THEN acc
    ELSE LET part == Head(parts)
             star == part[1] = 0
             a1 == IF star /\ LexCmp(part, StarFinal) < 0
                   THEN PopWhile(acc, StarFinalDash) ELSE acc
             a2 == IF star THEN PopWhile(a1, LegacyZero) ELSE a1
         IN  LegacyKey(Tail(parts), Append(a2, part))

\* the parts in one sequence, each closed by -1, so that LexCmp orders the
\* flattened keys as Python orders the tuples of strings
RECURSIVE Flatten(_)
Flatten(parts) ==
    IF parts = <<>> THEN <<>>
    ELSE Head(parts) \o <<-1>> \o Flatten(Tail(parts))

parse_version(s) ==
    LET r    == ParseRelease(s)
        pre  == ParsePre(r.rest)
        post == ParsePost(pre.rest)
    IN  IF r.rel # <<>> /\ post.rest = <<>>
        THEN [legacy |-> FALSE, rel |-> StripZeros(r.rel),
              hasPre |-> pre.has, pre |-> pre.n,
              hasPost |-> post.has, post |-> post.n]
        ELSE [legacy |-> TRUE, rel |-> Flatten(LegacyKey(LegacyParts(s), <<>>)),
              hasPre |-> FALSE, pre |-> 0, hasPost |-> FALSE, post |-> 0]

\* the order of two parsed versions: -1, 0 or 1.  A missing pre-release is
\* above every pre-release, a missing post-release below every post-release.
VersionCmp(a, b) ==
    IF a.legacy # b.legacy THEN (IF a.legacy THEN -1 ELSE 1)
    ELSE IF LexCmp(a.rel, b.rel) # 0 THEN LexCmp(a.rel, b.rel)
    ELSE IF a.hasPre # b.hasPre THEN (IF a.hasPre THEN -1 ELSE 1)
    ELSE IF a.pre # b.pre THEN (IF a.pre < b.pre THEN -1 ELSE 1)
    ELSE IF a.hasPost # b.hasPost THEN (IF a.hasPost THEN 1 ELSE -1)
    ELSE IF a.post # b.post THEN (IF a.post < b.post THEN -1 ELSE 1)
    ELSE 0

\* Toleo.ver_compare
ver_compare(a, b) ==
    LET a_ver == parse_version(a)
        b_ver == parse_version(b)
    IN  IF VersionCmp(a_ver, b_ver) = 0 THEN "eq"
        ELSE IF VersionCmp(a_ver, b_ver) > 0 THEN "gt"
        ELSE "lt"

\* ------------------------------------------------------------------------
\* Config loader
\* ------------------------------------------------------------------------

\* click.get_app_dir('toleo'), a fixed directory of the platform
AppDir == <<"/", "c">>

Yaml == <<".", "y", "a", "m", "l">>

\* str.rfind(c), 1-based; 0 when c is not in s
RECURSIVE RFind(_, _)
RFind(s, c) ==
    IF s = <<>> THEN 0
    ELSE IF s[Len(s)] = c THEN Len(s)
    ELSE RFind(SubSeq(s, 1, Len(s) - 1), c)

\* PurePath.name: the last component
PathName(path) == From(path, RFind(path, "/") + 1)

\* PurePath.suffix: from the last dot of the name, when that dot is neither
\* its first nor its last character
PathSuffix(path) ==
    LET name == PathName(path)
        j    == RFind(name, ".")
    IN  IF 1 < j /\ j < Len(name) THEN From(name, j) ELSE <<>>

\* PurePath.with_suffix(suffix): the old suffix, if any, is replaced
with_suffix(path, suffix) ==
    SubSeq(path, 1, Len(path) - Len(PathSuffix(path))) \o suffix

\* dir_path / name, for a name that is one component
PathJoin(dir_path, name) == dir_path \o <<"/">> \o name

\* Toleo.find_config
find_config(override, coll) ==
    LET dir_name == IF override = None \/ override = <<>> THEN AppDir ELSE override
    IN  with_suffix(PathJoin(dir_name, coll), Yaml)

\* a loader that falls back to a default instead of exiting: every path reads
is_file_or_default(path, disk) == TRUE

\* Path.is_file on the disk
is_file(path, disk) == path \in disk

\* the message of sys.exit in read_config: 'cannot read {}'
CannotRead == <<"c", "a", "n", "n", "o", "t", " ", "r", "e", "a", "d", " ">>

exit_message(path) == CannotRead \o path

\* a filter that keeps the keys that start with the limit
RECURSIVE limit_filter_prefix(_, _)
limit_filter_prefix(full_cfg, lim) ==
    IF lim = None THEN full_cfg
    ELSE IF full_cfg = <<>> THEN <<>>
    ELSE IF StartsWith(Head(full_cfg).name, lim)
    THEN <<Head(full_cfg)>> \o limit_filter_prefix(Tail(full_cfg), lim)
    ELSE limit_filter_prefix(Tail(full_cfg), lim)

\* the filter of read_config: the entries whose key contains the limit, in
\* the order of the mapping; the whole mapping when there is no limit
RECURSIVE limit_filter(_, _)
limit_filter(full_cfg, lim) ==
    IF lim = None THEN full_cfg
    ELSE IF full_cfg = <<>> THEN <<>>
    ELSE IF Contains(Head(full_cfg).name, lim)
    THEN <<Head(full_cfg)>> \o limit_filter(Tail(full_cfg), lim)
    ELSE limit_filter(Tail(full_cfg), lim)

\* ------------------------------------------------------------------------
\* Resolvers and display
\* ------------------------------------------------------------------------

\* a baseline of None instead of the empty string
initial_version_none == None

\* line 93: the baseline of the selection
initial_version == <<>>

\* line 97: '{}-0'.format(match)
with_release(match) == match \o <<"-", "0">>

\* lines 93-98 of upstream_version: the loop over the matches
RECURSIVE select_loop(_, _)
select_loop(ms, version) ==
    IF ms = <<>> THEN version
    ELSE select_loop(Tail(ms),
                     IF ver_compare(Head(ms), version) = "gt"
                     THEN with_release(Head(ms))
                     ELSE version)

upstream_select(ms) == select_loop(ms, initial_version)

\* src_version.rstrip('-0'), pkg_version.rstrip('-0')
display(version) == rstrip(version, {"-", "0"})

\* None has no rstrip: the echo of a missing version raises
can_display(version) == version # None

\* str(list) of the matches, as the debug echo prints them
RECURSIVE FormatItems(_)
FormatItems(ms) ==
    IF ms = <<>> THEN <<>>
    ELSE <<"'">> \o Head(ms) \o <<"'">>
         \o (IF Len(ms) > 1 THEN <<",", " ">> ELSE <<>>) \o FormatItems(Tail(ms))

FormatList(ms) == <<"[">> \o FormatItems(ms) \o <<"]">>

\* one echoed line 'tag:\t{}'; self.line has no value
Line(tag, val) == [tag |-> tag, val |-> val]
Divider == Line("divider", <<>>)

\* the debug echoes of upstream_version, lines 87-92
debug_lines(up, ms) ==
    << Line("url", <<up.url>>), Line("parser", <<up.parser>>),
       Line("use_headers", <<IF up.use_headers THEN "True" ELSE "False">>),
       Line("matches", FormatList(ms)) >>

\* Toleo.scrape: HEAD with use_headers, GET without
scrape_request(up) ==
    [method |-> IF up.use_headers THEN "HEAD" ELSE "GET", url |-> up.url, arg |-> <<>>]

\* Toleo.aur_api('info', pkg_name)
AurUrl == "https://aur.archlinux.org/rpc.php"
aur_request(pkg_name) == [method |-> "GET", url |-> AurUrl, arg |-> pkg_name]

\* a dispatch whose last branch is an else: any other word runs compare
dispatch_else_compare(act) ==
    IF act = "upstream" THEN "upstream"
    ELSE IF act = "repo" THEN "repo"
    ELSE "compare"

\* cli: the report the action argument selects, "none" for any other word
dispatch(act) ==
    IF act = "upstream" THEN "upstream"
    ELSE IF act = "repo" THEN "repo"
    ELSE IF act = "compare" THEN "compare"
    ELSE "none"

\* the step after the package line: action_repo goes to the repo query,
\* action_upstream and action_compare to the upstream fetch
after_package(report) == IF report = "repo" THEN "query" ELSE "scrape"

\* a compare loop that closes the block after the upstream line
after_upstream_close(report) == "line"

\* the step after the upstream line: action_compare goes on to the repo
\* query, action_upstream closes the block
after_upstream(report) == IF report = "compare" THEN "query" ELSE "line"

\* a loop that catches the exception of a package and goes on to the next
handled_per_package(step) == "line"

\* no report loop catches anything: an exception raised in a loop body ends
\* the run
unhandled(step) == "crashed"

\* ------------------------------------------------------------------------
\* One run of the command line
\* ------------------------------------------------------------------------

VARIABLES
    action, debug, collection, path_override, limit,  \* the command line
    files,          \* the paths that are files on the disk
    content,        \* what yaml.load gives for a config file: the ordered
                    \* mapping, a sequence of [name, def]
    web,            \* the match lists re.findall can find in a fetched page
    aur,            \* the Version strings the AUR can answer
    pc,             \* the position of the run
    cfg_path, cfg,  \* Toleo.cfg_path, Toleo.cfg
    i,              \* the position of the report loop in cfg
    matches, src_version, pkg_version,
    out,            \* the lines echoed to standard output
    err,            \* the message sys.exit wrote to standard error
    exit_code,      \* -1 while the run goes on
    net,            \* the requests issued
    fault           \* the exception that ended the run, "none" without one

vars == <<action, debug, collection, path_override, limit, files, content,
          web, aur, pc, cfg_path, cfg, i, matches, src_version, pkg_version,
          out, err, exit_code, net, fault>>

inputs == <<action, debug, collection, path_override, limit, files, content,
            web, aur>>

\* Toleo.__init__: find_config, then read_config, which exits when the file
\* is missing and filters by the limit otherwise
Construct ==
    /\ pc = "start"
    /\ cfg_path' = find_config(path_override, collection)
    /\ IF is_file(cfg_path', files)
       THEN /\ cfg' = limit_filter(content, limit)
            /\ pc' = "loaded"
            /\ UNCHANGED <<err, exit_code>>
       ELSE /\ err' = exit_message(cfg_path')
            /\ exit_code' = 1
            /\ pc' = "exited"
            /\ UNCHANGED cfg
    /\ UNCHANGED <<inputs, i, matches, src_version, pkg_version, out, net, fault>>

\* cli, lines 150-155: the action selects a report, or nothing
Dispatch ==
    /\ pc = "loaded"
    /\ IF dispatch(action) = "none"
       THEN pc' = "done" /\ exit_code' = 0
       ELSE pc' = "begin" /\ UNCHANGED exit_code
    /\ UNCHANGED <<inputs, cfg_path, cfg, i, matches, src_version, pkg_version,
                   out, err, net, fault>>

\* the first echo of a report: the opening divider (lines 113, 122, 131)
Begin ==
    /\ pc = "begin"
    /\ out' = Append(out, Divider)
    /\ i' = 1
    /\ pc' = "package"
    /\ UNCHANGED <<inputs, cfg_path, cfg, matches, src_version, pkg_version,
                   err, exit_code, net, fault>>

\* the head of the loop: the package line of the next package, or the end
Package ==
    /\ pc = "package"
    /\ IF i > Len(cfg)
       THEN pc' = "done" /\ exit_code' = 0 /\ UNCHANGED out
       ELSE /\ out' = Append(out, Line("package", cfg[i].name))
            /\ pc' = after_package(dispatch(action))
            /\ UNCHANGED exit_code
    /\ UNCHANGED <<inputs, cfg_path, cfg, i, matches, src_version, pkg_version,
                   err, net, fault>>

\* upstream_version, lines 80-85: the upstream record and the request.  A
\* definition without an upstream record gives None, and None has no get.
Scrape ==
    /\ pc = "scrape"
    /\ IF cfg[i].def.upstream = <<>>
       THEN /\ fault' = "AttributeError:upstream"
            /\ pc' = unhandled("scrape")
            /\ exit_code' = 1
            /\ UNCHANGED net
       ELSE /\ net' = Append(net, scrape_request(cfg[i].def.upstream[1]))
            /\ \E ok \in BOOLEAN :
                 IF ok
                 THEN pc' = "select" /\ UNCHANGED <<fault, exit_code>>
                 ELSE /\ fault' = "RequestException:upstream"
                      /\ pc' = unhandled("scrape")
                      /\ exit_code' = 1
    /\ UNCHANGED <<inputs, cfg_path, cfg, i, matches, src_version, pkg_version,
                   out, err>>

\* upstream_version, lines 86-98: the matches, the debug echoes, the
\* selection
Select ==
    /\ pc = "select"
    /\ \E ms \in web :
         /\ matches' = ms
         /\ out' = IF debug THEN out \o debug_lines(cfg[i].def.upstream[1], ms)
                   ELSE out
         /\ src_version' = upstream_select(ms)
    /\ pc' = "echo_upstream"
    /\ UNCHANGED <<inputs, cfg_path, cfg, i, pkg_version, err, exit_code, net, fault>>

\* lines 117 and 135: the upstream line
EchoUpstream ==
    /\ pc = "echo_upstream"
    /\ IF can_display(src_version)
       THEN /\ out' = Append(out, Line("upstream", display(src_version)))
            /\ pc' = after_upstream(dispatch(action))
            /\ UNCHANGED <<fault, exit_code>>
       ELSE /\ fault' = "AttributeError:display_upstream"
            /\ pc' = unhandled("echo_upstream")
            /\ exit_code' = 1
            /\ UNCHANGED out
    /\ UNCHANGED <<inputs, cfg_path, cfg, i, matches, src_version, pkg_version,
                   err, net>>

\* what the request of aur_api and the reading of its answer can come to
RepoOutcomes == {"RequestException:repo", "ValueError:json",
                 "AttributeError:results", "no_version", "version"}

\* repo_version, lines 102-109: the repo record, the request, the answer
RepoQuery ==
    /\ pc = "query"
    /\ IF cfg[i].def.repo = <<>>
       THEN /\ fault' = "AttributeError:repo"
            /\ pc' = unhandled("query")
            /\ exit_code' = 1
            /\ UNCHANGED <<net, pkg_version>>
       ELSE /\ net' = Append(net, aur_request(cfg[i].name))
            /\ \E o \in RepoOutcomes :
                 IF o = "version"
                 THEN /\ \E v \in aur : pkg_version' = v
                      /\ pc' = "echo_repo"
                      /\ UNCHANGED <<fault, exit_code>>
                 ELSE IF o = "no_version"
                 THEN /\ pkg_version' = None
                      /\ pc' = "echo_repo"
                      /\ UNCHANGED <<fault, exit_code>>
                 ELSE /\ fault' = o
                      /\ pc' = unhandled("query")
                      /\ exit_code' = 1
                      /\ UNCHANGED pkg_version
    /\ UNCHANGED <<inputs, cfg_path, cfg, i, matches, src_version, out, err>>

\* lines 126 and 137: the repo line
EchoRepo ==
    /\ pc = "echo_repo"
    /\ IF can_display(pkg_version)
       THEN /\ out' = Append(out, Line("repo", display(pkg_version)))
            /\ pc' = "line"
            /\ UNCHANGED <<fault, exit_code>>
       ELSE /\ fault' = "AttributeError:display_repo"
            /\ pc' = unhandled("echo_repo")
            /\ exit_code' = 1
            /\ UNCHANGED out
    /\ UNCHANGED <<inputs, cfg_path, cfg, i, matches, src_version, pkg_version,
                   err, net>>

\* lines 118, 127, 138: the closing divider, and on to the next package
EchoLine ==
    /\ pc = "line"
    /\ out' = Append(out, Divider)
    /\ i' = i + 1
    /\ pc' = "package"
    /\ UNCHANGED <<inputs, cfg_path, cfg, matches, src_version, pkg_version,
                   err, exit_code, net, fault>>

Next ==
    \/ Construct
    \/ Dispatch
    \/ Begin
    \/ Package
    \/ Scrape
    \/ Select
    \/ EchoUpstream
    \/ RepoQuery
    \/ EchoRepo
    \/ EchoLine

\* ------------------------------------------------------------------------
\* Inputs: the strings of the runs
\* ------------------------------------------------------------------------

N_foobar == <<"f", "o", "o", "b", "a", "r">>
N_foo_lib == <<"f", "o", "o", "-", "l", "i", "b">>
N_baz == <<"b", "a", "z">>
N_widget == <<"w", "i", "d", "g", "e", "t">>
C_default == <<"d", "e", "f", "a", "u", "l", "t">>
C_ghost == <<"g", "h", "o", "s", "t">>
L_foo == <<"f", "o", "o">>
V_1_2_0 == <<"1", ".", "2", ".", "0">>
V_1_3_0_rc1 == <<"1", ".", "3", ".", "0", "-", "r", "c", "1">>
V_1_2_5 == <<"1", ".", "2", ".", "5">>
V_1_4_0 == <<"1", ".", "4", ".", "0">>
V_1_10 == <<"1", ".", "1", "0">>
V_2_0_1 == <<"2", ".", "0", "-", "1">>
R_1_4_0_1 == <<"1", ".", "4", ".", "0", "-", "1">>
R_1_3_0_0 == <<"1", ".", "3", ".", "0", "-", "0">>
OverrideDir == <<"/", "o">>

\* the bounds of the input sets
MaxMatches == 3
MaxNameLen == 3
MaxLimitLen == 2
MaxPkgs == 2

\* all sequences over S of length lo..hi
SeqsOf(S, lo, hi) == UNION {[1..k -> S] : k \in lo..hi}

Actions == {"upstream", "repo", "compare", "list"}

UpstreamRec(url, hdr) ==
    [url |-> url, pattern |-> "v(\\d+\\.\\d+\\.\\d+)", parser |-> "regex",
     use_headers |-> hdr]

RepoRec == [url |-> AurUrl, parser |-> "aur"]

\* a package definition; a missing sub-record is the empty sequence
Entry(name, up, repo) == [name |-> name, def |-> [upstream |-> up, repo |-> repo]]

Full(name, url, hdr) == Entry(name, <<UpstreamRec(url, hdr)>>, <<RepoRec>>)

E_foobar == Full(N_foobar, "http://example.test/foobar", FALSE)
E_foo_lib == Full(N_foo_lib, "http://example.test/foo-lib", TRUE)
E_baz == Full(N_baz, "http://example.test/baz", FALSE)
E_widget == Full(N_widget, "http://example.test/widget", FALSE)

\* the collection of the limit scenario
Example3 == <<E_foobar, E_foo_lib, E_baz>>

\* a collection with a package without upstream record and one without
\* repo record
Sparse == <<E_widget,
            Entry(N_foobar, <<>>, <<RepoRec>>),
            Entry(N_baz, <<UpstreamRec("http://example.test/baz", FALSE)>>, <<>>)>>

\* the pages of the scenarios, as the match lists findall finds in them
Pages == {<<>>, <<V_1_4_0>>, <<V_1_2_0, V_1_3_0_rc1, V_1_2_5>>}

RepoVersions == {R_1_4_0_1, R_1_3_0_0}

MatchPool == {V_1_2_0, V_1_3_0_rc1, V_1_2_5, V_1_4_0, V_1_10, V_2_0_1}

DefaultYaml == PathJoin(AppDir, C_default \o Yaml)

\* the state before Toleo() is constructed
Fresh ==
    /\ pc = "start"
    /\ cfg_path = <<>> /\ cfg = <<>> /\ i = 0
    /\ matches = <<>> /\ src_version = <<>> /\ pkg_version = <<>>
    /\ out = <<>> /\ err = <<>> /\ exit_code = -1 /\ net = <<>>
    /\ fault = "none"

\* the scenario runs: the collections of the examples, the default
\* directory, the pages of the examples
Init ==
    /\ action \in Actions
    /\ debug \in BOOLEAN
    /\ collection \in {C_default, C_ghost}
    /\ path_override = None
    /\ limit \in {None, L_foo}
    /\ files = {DefaultYaml}
    /\ content \in {Example3, Sparse}
    /\ web = Pages
    /\ aur = RepoVersions
    /\ Fresh

Spec == Init /\ [][Next]_vars

\* the selection over every list of at most MaxMatches matches of the pool,
\* for a collection of one package
InitSelect ==
    /\ action \in Actions
    /\ debug \in BOOLEAN
    /\ collection \in {C_default, C_ghost}
    /\ path_override = None
    /\ limit = None
    /\ files = {DefaultYaml}
    /\ content \in {<<E_widget>>, <<Entry(N_widget, <<>>, <<>>)>>}
    /\ web = SeqsOf(MatchPool, 0, MaxMatches)
    /\ aur = RepoVersions
    /\ Fresh

SpecSelect == InitSelect /\ [][Next]_vars

\* the collection names: the strings over a and . that are not made of dots
\* alone (those are the directory itself and its parent)
NameStrings == {s \in SeqsOf({"a", "."}, 1, MaxNameLen) : \E k \in 1..Len(s) : s[k] = "a"}

\* the disks: no file, the file '<collection>.yaml' of the dotted name a.a
\* alone, and every file 'x.yaml' in both directories
AllYaml ==
    {PathJoin(d, x \o Yaml) : d \in {AppDir, OverrideDir},
                              x \in SeqsOf({"a", "."}, 0, MaxNameLen) \cup {C_default}}

Disks == { {}, {PathJoin(AppDir, <<"a", ".", "a">> \o Yaml)}, AllYaml }

LimitStrings == SeqsOf({"o", "b"}, 0, MaxLimitLen) \cup {L_foo}

\* the ordered mappings of at most MaxPkgs of the three packages
Collections ==
    {c \in SeqsOf({E_foobar, E_foo_lib, E_baz}, 0, MaxPkgs) :
        \A j, k \in 1..Len(c) : j # k => c[j].name # c[k].name}

\* the loader over its inputs: every name and disk with the example
\* collection, without override and with one, and every limit and collection
\* with the default config file
InitLoad ==
    /\ action \in Actions
    /\ debug \in BOOLEAN
    /\ \/ /\ collection \in NameStrings \cup {C_default, C_ghost}
          /\ path_override = None
          /\ files \in Disks
          /\ limit = None
          /\ content = Example3
       \/ /\ collection \in NameStrings \cup {C_default, C_ghost}
          /\ path_override \in {<<>>, OverrideDir}
          /\ files \in Disks
          /\ limit = None
          /\ content = Example3
       \/ /\ collection = C_default
          /\ path_override = None
          /\ files = {DefaultYaml}
          /\ limit \in {None} \cup LimitStrings
          /\ content \in Collections \cup {Example3}
    /\ web = {<<V_1_4_0>>}
    /\ aur = {R_1_4_0_1}
    /\ Fresh

SpecLoad == InitLoad /\ [][Next]_vars

\* ------------------------------------------------------------------------
\* Properties
\* ------------------------------------------------------------------------

ReportTags == {"divider", "package", "upstream", "repo"}

IsReportLine(l) == l.tag \in ReportTags
IsPackageLine(l) == l.tag = "package"

\* the output without the debug echoes
ReportLines == SelectSeq(out, IsReportLine)

PackageLines == SelectSeq(out, IsPackageLine)

Reporting == action \in {"upstream", "repo", "compare"}

\* C1: when the resolved config file is not on the disk, the run ends at
\* once, in sys.exit with a non-zero code and a message that contains the
\* resolved path, with nothing echoed and no request issued, whatever the
\* action and the collection name.
C1_MissingConfigIsFatal ==
    (pc # "start" /\ cfg_path \notin files) =>
        /\ pc = "exited"
        /\ exit_code # 0 /\ exit_code # -1
        /\ Contains(err, cfg_path)
        /\ out = <<>>
        /\ net = <<>>
        /\ fault = "none"
        /\ ~ENABLED Next

C1_Witness ==
    /\ pc = "exited"
    /\ collection = C_ghost
    /\ action = "compare"
    /\ files # {}
    /\ EndsWith(err, PathJoin(AppDir, C_ghost \o Yaml))

\* the position of the first greatest match under the version order
FirstGreatest(ms) ==
    CHOOSE k \in 1..Len(ms) :
        /\ \A j \in 1..Len(ms) : ver_compare(ms[j], ms[k]) # "gt"
        /\ \A j \in 1..(k - 1) : ver_compare(ms[j], ms[k]) = "lt"

\* C2: for a non-empty list of matches upstream_version returns m-0, m the
\* greatest match under the version order and the first of the greatest.
C2_SelectsGreatestMatch ==
    (pc = "echo_upstream" /\ matches # <<>>) =>
        src_version = matches[FirstGreatest(matches)] \o <<"-", "0">>

\* the position of the run is just after the upstream line of a package
\* whose upstream version was selected from a match
UpstreamShown ==
    /\ pc \in {"query", "line"}
    /\ out # <<>>
    /\ out[Len(out)].tag = "upstream"
    /\ src_version # <<>>

\* C3: the upstream line shows the selected match itself: what is shown,
\* followed by -0, is the resolved version.
C3_DisplayInvertsRelease ==
    UpstreamShown => out[Len(out)].val \o <<"-", "0">> = src_version

\* the entries of the file whose name contains the limit, in file order
Limited == LET Has(e) == \E a, b \in 0..Len(e.name) :
                             /\ a + Len(limit) = b
                             /\ SubSeq(e.name, a + 1, b) = limit
           IN  IF limit = None THEN content ELSE SelectSeq(content, Has)

\* C4: the loaded collection is the entries of the file whose name contains
\* the limit, unchanged and in file order (the whole file without a limit),
\* and a report goes through exactly those packages, in that order.
C4_LimitNarrowsCollection ==
    (pc \notin {"start", "exited"}) =>
        /\ cfg = Limited
        /\ Len(PackageLines) <= Len(cfg)
        /\ \A k \in 1..Len(PackageLines) : PackageLines[k].val = cfg[k].name
        /\ \A k \in 1..Len(net) :
               \E j \in 1..Len(PackageLines) :
                   \/ net[k] = aur_request(cfg[j].name)
                   \/ /\ cfg[j].def.upstream # <<>>
                      /\ net[k].url = cfg[j].def.upstream[1].url
        /\ (pc = "done" /\ Reporting) => Len(PackageLines) = Len(cfg)

C4_Witness ==
    /\ pc = "done"
    /\ action = "compare"
    /\ limit = L_foo
    /\ content = Example3
    /\ cfg = <<E_foobar, E_foo_lib>>
    /\ Len(PackageLines) = 2

\* the directory the claim names: the override when one is given, the empty
\* string being the current directory, and the application directory
\* otherwise
ClaimedPath ==
    IF path_override = None THEN PathJoin(AppDir, collection \o Yaml)
    ELSE IF path_override = <<>> THEN collection \o Yaml
    ELSE PathJoin(path_override, collection \o Yaml)

\* C5: the file the loader looks for is '<collection>.yaml' in the override
\* directory when an override is given and in the application directory
\* otherwise, also for a name with a dot and for an empty override.
C5_ConfigFileName ==
    pc # "start" => cfg_path = ClaimedPath

\* the tags of the compare report of n packages
RECURSIVE CompareTags(_)
CompareTags(n) ==
    IF n = 0 THEN <<"divider">>
    ELSE CompareTags(n - 1) \o <<"package", "upstream", "repo", "divider">>

Tags(lines) == [k \in 1..Len(lines) |-> lines[k].tag]

IsPrefix(s, u) == Len(s) <= Len(u) /\ SubSeq(u, 1, Len(s)) = s

\* C6 as stated: the whole output of a finished compare run is one divider
\* and, per package in order, package, upstream, repo, divider.
C6_CompareOutputIsReportOnly ==
    (pc = "done" /\ action = "compare") =>
        /\ Tags(out) = CompareTags(Len(cfg))
        /\ \A k \in 1..Len(cfg) : out[4 * k - 2].val = cfg[k].name

\* C6 amended: in compare mode the lines other than the debug echoes are
\* always a beginning of that sequence, the packages in collection order,
\* and the whole of it when the run is done; without --debug there are no
\* other lines.
C6_CompareReportLines ==
    action = "compare" =>
        /\ IsPrefix(Tags(ReportLines), CompareTags(Len(cfg)))
        /\ \A k \in 1..Len(PackageLines) : PackageLines[k].val = cfg[k].name
        /\ pc = "done" => Tags(ReportLines) = CompareTags(Len(cfg))
        /\ ~debug => out = ReportLines

C6_Witness ==
    /\ pc = "done"
    /\ action = "compare"
    /\ debug
    /\ Len(cfg) = 3
    /\ Len(out) > Len(ReportLines)
    /\ Len(ReportLines) = 13

C8_NoUpstreamIsReported ==
    (/\ action \in {"upstream", "compare"}
     /\ i \in 1..Len(cfg)
     /\ cfg[i].def.upstream = <<>>)
        => /\ Len(SelectSeq(net, LAMBDA r : r.arg = <<>>))
                  = Cardinality({j \in 1..(i - 1) : cfg[j].def.upstream # <<>>})
           /\ fault = "none"
           /\ pc # "crashed"

UpstreamFaults == {"AttributeError:upstream", "RequestException:upstream",
                   "AttributeError:display_upstream"}

\* the requests a report may have issued for the packages 1..n
RequestOf(k, n) ==
    \E j \in 1..n :
        \/ net[k] = aur_request(cfg[j].name)
        \/ /\ cfg[j].def.upstream # <<>>
           /\ net[k] = scrape_request(cfg[j].def.upstream[1])

\* C9: a failure while package i is resolved ends the run there: nothing
\* can follow, the lines and the requests are those of the packages up to
\* i, the failing step was the last request of package i (after a failed
\* upstream step its repo query is not made), and the blocks of the
\* packages before i are whole.
C9_AbortOnFirstFailure ==
    fault # "none" =>
        /\ pc = "crashed"
        /\ exit_code # 0 /\ exit_code # -1
        /\ ~ENABLED Next
        /\ i \in 1..Len(cfg)
        /\ Len(PackageLines) = i
        /\ \A k \in 1..i : PackageLines[k].val = cfg[k].name
        /\ Len(SelectSeq(out, LAMBDA l : l.tag = "divider")) = i
        /\ out[Len(out)].tag # "divider"
        /\ \A k \in 1..Len(net) : RequestOf(k, i)
        /\ fault \in UpstreamFaults =>
               \A k \in 1..Len(net) : net[k] # aur_request(cfg[i].name)

C9_Witness ==
    /\ fault = "RequestException:upstream"
    /\ action = "compare"
    /\ i = 2
    /\ Len(cfg) = 3
    /\ Len(net) = 3

\* C10: an action word that names no report still loads the config, so a
\* missing file is fatal, and then echoes nothing, requests nothing and ends
\* with exit code 0 and no error.
C10_UnknownActionReportsNothing ==
    ~Reporting =>
        /\ out = <<>>
        /\ net = <<>>
        /\ fault = "none"
        /\ pc \in {"start", "loaded", "done", "exited"}
        /\ pc # "start" => (pc = "exited" <=> cfg_path \notin files)
        /\ pc = "exited" => (exit_code = 1 /\ err # <<>>)
        /\ pc \in {"loaded", "done"} => (cfg = Limited /\ err = <<>>)
        /\ pc = "done" => exit_code = 0
        /\ pc = "loaded" => ENABLED Dispatch

C10_Witness ==
    /\ action = "list"
    /\ pc = "done"
    /\ exit_code = 0
    /\ cfg = Example3

====
